---- MODULE Spec2Model ----
(***************************************************************************)
(* Model of HotUpdatePlugin (src/main.py): the "update list" and           *)
(* "update up" command handlers, the per-plugin release check and the      *)
(* version comparison.                                                     *)
(*                                                                         *)
(* Python strings are modelled as sequences of one-character strings       *)
(* (repository URLs as sequences of literal pieces), so that split, int,   *)
(* lstrip and the regular expression are computed and not assumed.         *)
(* The handlers are asyncio coroutines on one event loop: an action is the *)
(* code a coroutine runs between two suspension points (await / yield).    *)
(***************************************************************************)
EXTENDS Integers, Sequences, FiniteSets, TLC

\* ------------------------------------------------------------------ bounds
\* largest number of plugin records the host has loaded
MaxStars == 2

\* ------------------------------------------------------- string primitives
DigitChars == <<"0", "1", "2", "3", "4", "5", "6", "7", "8", "9">>

Digits == { DigitChars[i] : i \in 1..Len(DigitChars) }

DigitVal(c) == (CHOOSE i \in 1..Len(DigitChars) : DigitChars[i] = c) - 1

\* str.split(sep) with a one-character separator: empty pieces are kept
RECURSIVE SplitOn(_, _)
SplitOn(s, sep) ==
    IF \A i \in 1..Len(s) : s[i] # sep THEN <<s>>
    ELSE LET p == CHOOSE i \in 1..Len(s) :
                      s[i] = sep /\ \A j \in 1..(i - 1) : s[j] # sep
         IN  <<SubSeq(s, 1, p - 1)>> \o SplitOn(SubSeq(s, p + 1, Len(s)), sep)

\* str.split() without argument: split on runs of whitespace, no empty piece
SplitWhitespace(s) == SelectSeq(SplitOn(s, " "), LAMBDA piece : piece # <<>>)

\* str.strip(): leading and trailing whitespace removed
RECURSIVE Strip(_)
Strip(s) ==
    IF s = <<>> THEN s
    ELSE IF Head(s) = " " THEN Strip(Tail(s))
    ELSE IF s[Len(s)] = " " THEN Strip(SubSeq(s, 1, Len(s) - 1))
    ELSE s

\* str.lstrip(chars): every leading character that is in chars is removed
RECURSIVE LStrip(_, _)
LStrip(s, chars) ==
    IF s # <<>> /\ Head(s) \in chars THEN LStrip(Tail(s), chars) ELSE s

RECURSIVE DigitsValue(_, _)
DigitsValue(ds, acc) ==
    IF ds = <<>> THEN acc ELSE DigitsValue(Tail(ds), 10 * acc + DigitVal(Head(ds)))

\* int(text): optional surrounding whitespace, optional sign, decimal digits;
\* anything else raises ValueError (ok = FALSE)
ParseInt(text) ==
    LET t    == Strip(text)
        neg  == t # <<>> /\ Head(t) = "-"
        body == IF t # <<>> /\ Head(t) \in {"-", "+"} THEN Tail(t) ELSE t
    IN  IF body # <<>> /\ \A i \in 1..Len(body) : body[i] \in Digits
        THEN [ok |-> TRUE,
              val |-> IF neg THEN 0 - DigitsValue(body, 0) ELSE DigitsValue(body, 0)]
        ELSE [ok |-> FALSE, val |-> 0]

\* list(map(int, pieces)): ValueError as soon as one piece is no integer
ParseInts(pieces) ==
    IF \A i \in 1..Len(pieces) : ParseInt(pieces[i]).ok
    THEN [ok |-> TRUE, vals |-> [i \in 1..Len(pieces) |-> ParseInt(pieces[i]).val]]
    ELSE [ok |-> FALSE, vals |-> <<>>]

\* ------------------------------------------------------ _compare_versions
Max(a, b) == IF a >= b THEN a ELSE b

Min(a, b) == IF a <= b THEN a ELSE b

\* faulty variant of CompareFrom: the shorter version is not padded with
\* zeros, the loop stops at its end
RECURSIVE CompareFromUnpadded(_, _, _)
CompareFromUnpadded(curr_parts, latest_parts, i) ==
    IF i > Min(Len(curr_parts), Len(latest_parts)) THEN 0
    ELSE IF curr_parts[i] < latest_parts[i] THEN -1
    ELSE IF curr_parts[i] > latest_parts[i] THEN 1
    ELSE CompareFromUnpadded(curr_parts, latest_parts, i + 1)

\* the loop body of _compare_versions from position i (1-based) on
RECURSIVE CompareFrom(_, _, _)
CompareFrom(curr_parts, latest_parts, i) ==
    IF i > Max(Len(curr_parts), Len(latest_parts)) THEN 0
    ELSE LET curr_part   == IF i <= Len(curr_parts) THEN curr_parts[i] ELSE 0
             latest_part == IF i <= Len(latest_parts) THEN latest_parts[i] ELSE 0
         IN  IF curr_part < latest_part THEN -1
             ELSE IF curr_part > latest_part THEN 1
             ELSE CompareFrom(curr_parts, latest_parts, i + 1)

\* faulty variant of CompareVersions: versions with equal segments compare
\* as if the latest were above the current
CompareVersionsTieIsOlder(current_version, latest_version) ==
    LET curr_parts   == ParseInts(SplitOn(current_version, "."))
        latest_parts == ParseInts(SplitOn(latest_version, "."))
        val          == CompareFrom(curr_parts.vals, latest_parts.vals, 1)
    IN  IF curr_parts.ok /\ latest_parts.ok
        THEN [raised |-> FALSE, val |-> IF val = 0 THEN -1 ELSE val]
        ELSE [raised |-> TRUE, val |-> 0]

\* _compare_versions: raised = TRUE stands for the ValueError of int()
CompareVersions(current_version, latest_version) ==
    LET curr_parts   == ParseInts(SplitOn(current_version, "."))
        latest_parts == ParseInts(SplitOn(latest_version, "."))
    IN  IF curr_parts.ok /\ latest_parts.ok
        THEN [raised |-> FALSE,
              val |-> CompareFrom(curr_parts.vals, latest_parts.vals, 1)]
        ELSE [raised |-> TRUE, val |-> 0]

\* ------------------------------------------------------- host and remote
\* A repository URL is a sequence of literal pieces; <<>> is None or "".
MARKER == "github.com"

UrlA     == <<"https://", "github.com", "/", "o", "/", "a">>
UrlBGit  == <<"https://", "github.com", "/", "o", "/", "b", ".git">>
UrlNoRepo == <<"https://", "github.com", "/", "o">>
UrlOther == <<"https://", "gitlab.com", "/", "o", "/", "e">>

\* StarMetadata: the host's record of a loaded plugin (read-only here)
StarA == [name |-> "A", version |-> <<"1", ".", "2", ".", "0">>, repo_url |-> UrlA]
StarB == [name |-> "B", version |-> <<"1", ".", "9">>,           repo_url |-> UrlBGit]
StarC == [name |-> "C", version |-> <<"1", ".", "0">>,           repo_url |-> UrlNoRepo]
StarD == [name |-> "D", version |-> <<"1", ".", "0">>,           repo_url |-> <<>>]
StarE == [name |-> "E", version |-> <<"1", ".", "0">>,           repo_url |-> UrlOther]

\* the order in which the host enumerates the plugins it knows
HostOrder == <<StarB, StarA, StarC, StarD, StarE>>

\* what context.get_all_stars() can return: any MaxStars or fewer of them loaded
StarLists ==
    { SelectSeq(HostOrder, LAMBDA s : s.name \in loaded) :
          loaded \in { N \in SUBSET {"A", "B", "C", "D", "E"} : Cardinality(N) <= MaxStars } }

\* tag_name values the release feed can carry
TagEqualA  == <<"v", "1", ".", "2", ".", "0">>      \* "v1.2.0"
TagEqualB  == <<"V", "1", ".", "9">>                \* "V1.9"
TagNewer   == <<"v", "1", ".", "1", "0">>           \* "v1.10"
TagShortA  == <<"1", ".", "2">>                     \* "1.2"
TagOlder   == <<"1", ".", "0">>                     \* "1.0"
TagEmpty   == <<>>                                  \* ""
TagOnlyV   == <<"v">>                               \* "v"
TagBeta    == <<"v", "b">>                          \* "vb"

Tags == {TagEqualA, TagEqualB, TagNewer, TagShortA, TagOlder, TagEmpty, TagOnlyV, TagBeta}

\* outcome of GET .../releases/latest as the check sees it:
\*   client_error  session.get raises aiohttp.ClientError
\*   http_error    raise_for_status raises (a ClientError)
\*   bad_json      response.json() raises
\*   json          a JSON object, with or without tag_name
Response(kind, has_tag, tag) == [kind |-> kind, has_tag |-> has_tag, tag |-> tag]

Responses ==
    { Response(k, FALSE, <<>>) : k \in {"client_error", "http_error", "bad_json", "json"} }
    \cup { Response("json", TRUE, t) : t \in Tags }

\* the answers drawn while list invocations run
LiveResponses ==
    { Response("client_error", FALSE, <<>>), Response("json", FALSE, <<>>),
      Response("json", TRUE, TagEqualA), Response("json", TRUE, TagNewer),
      Response("json", TRUE, TagBeta) }

\* ---------------------------------------------------- _check_plugin_update
\* "github.com" in repo_url
HasMarker(repo_url) == \E i \in 1..Len(repo_url) : repo_url[i] = MARKER

SlashFree(piece) == piece \notin {"/", "https://"}

\* last position of the longest run of slash-free pieces starting at from
\* (from - 1 when there is none): the greedy [^/]+
RunEnd(url, from) ==
    CHOOSE e \in (from - 1)..Len(url) :
        /\ \A j \in from..e : SlashFree(url[j])
        /\ (e = Len(url) \/ ~SlashFree(url[e + 1]))

\* whether github\.com/([^/]+)/([^/]+) matches with "github.com" at position i
MatchesAt(url, i) ==
    /\ i + 1 <= Len(url)
    /\ url[i] = MARKER
    /\ url[i + 1] = "/"
    /\ LET e == RunEnd(url, i + 2)
       IN  /\ e >= i + 2
           /\ e + 1 <= Len(url)
           /\ url[e + 1] = "/"
           /\ RunEnd(url, e + 2) >= e + 2

\* faulty variant of RepoMatch: github\.com/([^/]+) alone counts as a match,
\* the repository segment may be missing
RepoMatchOwnerOnly(repo_url) ==
    IF \E i \in 1..(Len(repo_url) - 1) :
           /\ repo_url[i] = MARKER
           /\ repo_url[i + 1] = "/"
           /\ RunEnd(repo_url, i + 2) >= i + 2
    THEN LET i == CHOOSE p \in 1..(Len(repo_url) - 1) :
                      /\ repo_url[p] = MARKER
                      /\ repo_url[p + 1] = "/"
                      /\ RunEnd(repo_url, p + 2) >= p + 2
             e == RunEnd(repo_url, i + 2)
         IN  [found |-> TRUE,
              owner |-> SubSeq(repo_url, i + 2, e),
              repo  |-> IF e + 2 <= Len(repo_url)
                        THEN SubSeq(repo_url, e + 2, RunEnd(repo_url, e + 2))
                        ELSE <<>>]
    ELSE [found |-> FALSE, owner |-> <<>>, repo |-> <<>>]

\* re.search(...): the leftmost match, as [found, owner, repo]
RepoMatch(repo_url) ==
    IF \E i \in 1..Len(repo_url) : MatchesAt(repo_url, i)
    THEN LET i == CHOOSE p \in 1..Len(repo_url) :
                      MatchesAt(repo_url, p)
                      /\ \A q \in 1..(p - 1) : ~MatchesAt(repo_url, q)
             e == RunEnd(repo_url, i + 2)
             f == RunEnd(repo_url, e + 2)
             repo == SubSeq(repo_url, e + 2, f)
         IN  [found |-> TRUE,
              owner |-> SubSeq(repo_url, i + 2, e),
              repo  |-> IF repo[Len(repo)] = ".git"
                        THEN SubSeq(repo, 1, Len(repo) - 1) ELSE repo]
    ELSE [found |-> FALSE, owner |-> <<>>, repo |-> <<>>]

\* the try block of _check_plugin_update for a plugin whose URL matched,
\* given what the remote answered: result is None (<<>>) or the pair
\* <<star_metadata, latest_version>>; log is "error" when logger.error ran;
\* raised says whether an exception leaves the coroutine
Outcome(result, log, raised) == [result |-> result, log |-> log, raised |-> raised]

\* faulty variant of IsUpdate: an equal version counts as an update
IsUpdateOrEqual(cmp_val) == cmp_val <= 0

\* line 81: the comparison result that makes a candidate
IsUpdate(cmp_val) == cmp_val < 0

\* faulty variant of Caught: the exception is logged and raised again
CaughtReraised(kind) == Outcome(<<>>, "error", TRUE)

\* lines 83-86: an exception raised inside the try block is logged and
\* swallowed, the check then returns None
Caught(kind) == Outcome(<<>>, "error", FALSE)

CheckResponse(star_metadata, response) ==
    IF response.kind \in {"client_error", "http_error", "bad_json"}
    THEN Caught(response.kind)
    ELSE LET latest_version ==
                 LStrip(IF response.has_tag THEN response.tag ELSE <<>>, {"v", "V"})
         IN  IF latest_version = <<>> THEN Outcome(<<>>, "none", FALSE)
             ELSE LET cmp == CompareVersions(star_metadata.version, latest_version)
                  IN  IF cmp.raised THEN Caught("value_error")
                      ELSE IF IsUpdate(cmp.val)
                      THEN Outcome(<<star_metadata, latest_version>>, "none", FALSE)
                      ELSE Outcome(<<>>, "none", FALSE)

\* _check_plugin_update as a whole (lines 61-87)
CheckPluginUpdate(star_metadata, response) ==
    IF ~RepoMatch(star_metadata.repo_url).found
    THEN Outcome(<<>>, "warning", FALSE)
    ELSE CheckResponse(star_metadata, response)

\* ------------------------------------------------------------------ state
ListOps  == {"L1", "L2"}      \* "update list" invocations that may overlap
ApplyOps == {"U1"}            \* "update up" invocation

VARIABLES
    all_stars,          \* context.get_all_stars()
    has_install,        \* hasattr(context._star_manager, "install_plugin")
    updatable_plugins,  \* self.updatable_plugins
    lpc,                \* list invocation: where the coroutine is suspended
    tasks,              \* list invocation: the checks asyncio.gather waits for
    lout,               \* list invocation: the kinds of the messages yielded
    overlapped,         \* list invocation: another one ran while it did (history)
    apc,                \* apply invocation: where the coroutine is suspended
    indices_str,        \* apply invocation: the argument
    indices,            \* apply invocation: the parsed indices
    pos,                \* apply invocation: iterations of the for loop begun
    results_messages,   \* apply invocation: results_messages
    calls,              \* apply invocation: install_plugin calls made
    aout,               \* apply invocation: the messages yielded
    selected,           \* apply invocation: while its loop runs, the plugins its
                        \* indices referred to when the loop began (history)
    cmp_in,             \* comparison harness: the versions compared
    cmp_out,            \* comparison harness: the results of _compare_versions
    chk_in,             \* check harness: the plugin and the remote's answer
    chk_out             \* check harness: what _check_plugin_update returned

host_vars  == <<all_stars, has_install>>
list_vars  == <<lpc, tasks, lout, overlapped>>
apply_vars == <<apc, indices_str, indices, pos, results_messages, calls, aout,
               selected>>
pure_vars  == <<cmp_in, cmp_out, chk_in, chk_out>>
vars == <<all_stars, has_install, updatable_plugins, lpc, tasks, lout, overlapped,
          apc, indices_str, indices, pos, results_messages, calls, aout, selected,
          cmp_in, cmp_out, chk_in, chk_out>>

\* arguments of "update up" the operator may type
IndexInputs ==
    { <<"1", " ", "3">>,                          \* "1 3"
      <<" ", "0", " ", " ", "2", " ", "1">>,      \* " 0  2 1"
      <<"1", " ", "x">>,                          \* "1 x"
      <<"-", "1">>,                               \* "-1"
      <<>> }                                      \* ""

\* __init__ (lines 12-15): no command has run yet
Constructed ==
    /\ updatable_plugins = <<>>
    /\ lpc = [l \in ListOps |-> "idle"]
    /\ tasks = [l \in ListOps |-> <<>>]
    /\ lout = [l \in ListOps |-> <<>>]
    /\ overlapped = [l \in ListOps |-> FALSE]
    /\ apc = [a \in ApplyOps |-> "idle"]
    /\ indices_str = [a \in ApplyOps |-> <<>>]
    /\ indices = [a \in ApplyOps |-> <<>>]
    /\ pos = [a \in ApplyOps |-> 0]
    /\ results_messages = [a \in ApplyOps |-> <<>>]
    /\ calls = [a \in ApplyOps |-> <<>>]
    /\ aout = [a \in ApplyOps |-> <<>>]
    /\ selected = [a \in ApplyOps |-> <<>>]

Init ==
    /\ all_stars \in StarLists
    /\ has_install \in BOOLEAN
    /\ Constructed
    /\ cmp_in = <<>> /\ cmp_out = <<>>
    /\ chk_in = <<>> /\ chk_out = <<>>

\* -------------------------------------------------- list_updatable_plugins
PendingTask(star_metadata) ==
    [star |-> star_metadata, done |-> FALSE, result |-> <<>>, log |-> "none",
     raised |-> FALSE]

DoneTask(star_metadata, outcome) ==
    [star |-> star_metadata, done |-> TRUE, result |-> outcome.result,
     log |-> outcome.log, raised |-> outcome.raised]

\* line 37: the plugins that get a check
Checkable(star_metadata) ==
    star_metadata.repo_url # <<>> /\ HasMarker(star_metadata.repo_url)

\* lines 35-38: one check per such plugin, in the order of all_stars
BuildTasks(stars) ==
    LET checked == SelectSeq(stars, Checkable)
    IN  [i \in 1..Len(checked) |-> PendingTask(checked[i])]

\* lines 46-50: the results that are not None, in the order of the tasks
Found(ts) ==
    LET hits == SelectSeq(ts, LAMBDA t : t.result # <<>>)
    IN  [i \in 1..Len(hits) |-> hits[i].result]

InFlight(l) == lpc[l] # "idle"

\* faulty variant of GatherDone: the wait ends with the first check that is
\* back
GatherDoneOnFirst(ts) == \E i \in 1..Len(ts) : ts[i].done

\* line 44: asyncio.gather(*tasks) returns when every check has returned
GatherDone(ts) == \A i \in 1..Len(ts) : ts[i].done

\* lines 24-33: the list is emptied, then the first message is yielded
ListStart(l) ==
    /\ lpc[l] = "idle"
    /\ updatable_plugins' = <<>>
    /\ IF all_stars = <<>>
       THEN /\ lpc' = [lpc EXCEPT ![l] = "yield_no_stars"]
            /\ lout' = [lout EXCEPT ![l] = <<"no_stars">>]
       ELSE /\ lpc' = [lpc EXCEPT ![l] = "yield_checking"]
            /\ lout' = [lout EXCEPT ![l] = <<"checking">>]
    /\ overlapped' = [m \in ListOps |->
                        IF m = l THEN \E o \in ListOps \ {l} : InFlight(o)
                        ELSE overlapped[m] \/ InFlight(m)]
    /\ UNCHANGED <<tasks, host_vars, apply_vars, pure_vars>>

\* lines 35-44: resumed after the first message; builds the checks and either
\* yields "nothing to check" or awaits asyncio.gather
ListFanOut(l) ==
    /\ lpc[l] = "yield_checking"
    /\ LET ts == BuildTasks(all_stars)
       IN  IF ts = <<>>
           THEN /\ lpc' = [lpc EXCEPT ![l] = "yield_no_tasks"]
                /\ lout' = [lout EXCEPT ![l] = Append(@, "no_tasks")]
                /\ UNCHANGED tasks
           ELSE /\ lpc' = [lpc EXCEPT ![l] = "gather"]
                /\ tasks' = [tasks EXCEPT ![l] = ts]
                /\ UNCHANGED lout
    /\ UNCHANGED <<updatable_plugins, overlapped, host_vars, apply_vars, pure_vars>>

\* lines 63-67: a check whose URL does not match the pattern returns None
\* without asking the remote
CheckNoMatch(l, i) ==
    /\ lpc[l] = "gather"
    /\ i \in 1..Len(tasks[l])
    /\ ~tasks[l][i].done
    /\ ~RepoMatch(tasks[l][i].star.repo_url).found
    /\ tasks' = [tasks EXCEPT ![l][i] =
                    DoneTask(@.star, CheckPluginUpdate(@.star, Response("none", FALSE, <<>>)))]
    /\ UNCHANGED <<updatable_plugins, lpc, lout, overlapped, host_vars, apply_vars,
                   pure_vars>>

\* lines 69-87: a check whose URL matched gets the remote's answer and returns
CheckReturn(l, i, response) ==
    /\ lpc[l] = "gather"
    /\ i \in 1..Len(tasks[l])
    /\ ~tasks[l][i].done
    /\ RepoMatch(tasks[l][i].star.repo_url).found
    /\ tasks' = [tasks EXCEPT ![l][i] =
                    DoneTask(@.star, CheckPluginUpdate(@.star, response))]
    /\ UNCHANGED <<updatable_plugins, lpc, lout, overlapped, host_vars, apply_vars,
                   pure_vars>>

\* lines 44-59: asyncio.gather returns once every check has returned, and the
\* results are appended to the list and the report is yielded; it raises as
\* soon as a check has raised, and the exception leaves the handler
ListCollect(l) ==
    /\ lpc[l] = "gather"
    /\ IF \E i \in 1..Len(tasks[l]) : tasks[l][i].raised
       THEN /\ lpc' = [lpc EXCEPT ![l] = "raised"]
            /\ UNCHANGED <<updatable_plugins, lout>>
       ELSE /\ GatherDone(tasks[l])
            /\ updatable_plugins' = updatable_plugins \o Found(tasks[l])
            /\ lout' = [lout EXCEPT ![l] =
                          Append(@, IF Len(Found(tasks[l])) > 0
                                    THEN "updates" ELSE "up_to_date")]
            /\ lpc' = [lpc EXCEPT ![l] = "yield_report"]
    /\ tasks' = [tasks EXCEPT ![l] = <<>>]
    /\ UNCHANGED <<overlapped, host_vars, apply_vars, pure_vars>>

\* lines 30, 42, 59: resumed after the last message (or unwound by the
\* exception); the generator ends
ListReturn(l) ==
    /\ lpc[l] \in {"yield_no_stars", "yield_no_tasks", "yield_report", "raised"}
    /\ lpc' = [lpc EXCEPT ![l] = "idle"]
    /\ lout' = [lout EXCEPT ![l] = <<>>]
    /\ overlapped' = [overlapped EXCEPT ![l] = FALSE]
    /\ UNCHANGED <<updatable_plugins, tasks, host_vars, apply_vars, pure_vars>>

\* --------------------------------------------------- update_plugin_command
\* faulty variant of ParseIndices: tokens that are no integers are skipped
ParseIndicesLenient(text) ==
    LET tokens == SelectSeq(SplitWhitespace(text), LAMBDA token : ParseInt(token).ok)
    IN  [ok |-> TRUE, vals |-> [i \in 1..Len(tokens) |-> ParseInt(tokens[i]).val]]

\* lines 112-118: the indices, or ValueError (ok = FALSE) when a token is no
\* integer or there is no token
ParseIndices(text) ==
    LET parsed == ParseInts(SplitWhitespace(text))
    IN  IF parsed.ok /\ parsed.vals # <<>> THEN parsed
        ELSE [ok |-> FALSE, vals |-> <<>>]

\* faulty variant of InRange: the last index is taken to be out of range
InRangeBelowLast(index, n) == 1 <= index /\ index < n

\* line 122: 1 <= index <= len(self.updatable_plugins)
InRange(index, n) == 1 <= index /\ index <= n

\* items of results_messages; k is the iteration of the for loop (the position
\* in the request) that appended the item
OutOfRangeItem(k, index, n) == [kind |-> "out_of_range", k |-> k, index |-> index, n |-> n]
NoRepoItem(k, name) == [kind |-> "no_repo", k |-> k, name |-> name]
UpdatingItem(k, name, latest) == [kind |-> "updating", k |-> k, name |-> name, latest |-> latest]
NoCapabilityItem(k) == [kind |-> "no_capability", k |-> k]
SuccessItem(k, name, latest) == [kind |-> "success", k |-> k, name |-> name, latest |-> latest]
FailedItem(k, name) == [kind |-> "failed", k |-> k, name |-> name]

\* line 144: install_plugin(repo_url=target_repo_url, proxy=None), not yet back
InstallCall(k, star_metadata, latest) ==
    [k |-> k, repo_url |-> star_metadata.repo_url, proxy |-> "None",
     name |-> star_metadata.name, latest |-> latest, state |-> "pending"]

\* faulty variant of OutcomeItem: the exception of install_plugin is swallowed
\* and the item says success
OutcomeItemAlwaysSuccess(call, ok) == SuccessItem(call.k, call.name, call.latest)

\* lines 146-151: the item appended when install_plugin comes back
OutcomeItem(call, ok) ==
    IF ok THEN SuccessItem(call.k, call.name, call.latest)
    ELSE FailedItem(call.k, call.name)

\* faulty variant of HasInstallPlugin: the capability is taken for granted
HasInstallPluginAssumed == TRUE

\* faulty variant of ListAfterInstall: the entry of a plugin that was updated
\* is taken out of the list
ListAfterInstallEntryRemoved(plugins, index, ok) ==
    IF ok /\ index \in 1..Len(plugins)
    THEN SubSeq(plugins, 1, index - 1) \o SubSeq(plugins, index + 1, Len(plugins))
    ELSE plugins

\* lines 144-151: self.updatable_plugins once install_plugin has come back for
\* the candidate at index: neither branch assigns to it or changes it
ListAfterInstall(plugins, index, ok) == plugins

\* lines 138-139: hasattr(plugin_manager, 'install_plugin')
HasInstallPlugin == has_install

\* faulty variant of RunLoop: install_plugin is started and not awaited, the
\* loop goes straight on to the next index
RECURSIVE RunLoopNoAwait(_, _, _, _, _, _)
RunLoopNoAwait(plugins, capable, idx, k, msgs, made) ==
    IF k > Len(idx)
    THEN [pc |-> "yield_report", pos |-> Len(idx), msgs |-> msgs, calls |-> made]
    ELSE LET index == idx[k] IN
         IF ~InRange(index, Len(plugins))
         THEN RunLoopNoAwait(plugins, capable, idx, k + 1,
                             Append(msgs, OutOfRangeItem(k, index, Len(plugins))), made)
         ELSE LET star_metadata  == plugins[index][1]
                  latest_version == plugins[index][2]
                  updating == UpdatingItem(k, star_metadata.name, latest_version)
              IN  IF ~capable
                  THEN RunLoopNoAwait(plugins, capable, idx, k + 1,
                                      msgs \o <<updating, NoCapabilityItem(k)>>, made)
                  ELSE RunLoopNoAwait(plugins, capable, idx, k + 1,
                                      Append(msgs, updating),
                                      Append(made, InstallCall(k, star_metadata,
                                                               latest_version)))

\* lines 121-151 from iteration k of the for loop up to the next suspension:
\* runs until install_plugin is awaited (pc "await_install") or the loop ends
\* and the report is yielded (pc "yield_report")
RECURSIVE RunLoop(_, _, _, _, _, _)
RunLoop(plugins, capable, idx, k, msgs, made) ==
    IF k > Len(idx)
    THEN [pc |-> "yield_report", pos |-> Len(idx), msgs |-> msgs, calls |-> made]
    ELSE LET index == idx[k] IN
         IF ~InRange(index, Len(plugins))
         THEN RunLoop(plugins, capable, idx, k + 1,
                      Append(msgs, OutOfRangeItem(k, index, Len(plugins))), made)
         ELSE LET star_metadata  == plugins[index][1]
                  latest_version == plugins[index][2]
                  updating == UpdatingItem(k, star_metadata.name, latest_version)
              IN  IF star_metadata.repo_url = <<>>
                  THEN RunLoop(plugins, capable, idx, k + 1,
                               Append(msgs, NoRepoItem(k, star_metadata.name)), made)
                  ELSE IF ~capable
                  THEN RunLoop(plugins, capable, idx, k + 1,
                               msgs \o <<updating, NoCapabilityItem(k)>>, made)
                  ELSE [pc |-> "await_install", pos |-> k,
                        msgs |-> Append(msgs, updating),
                        calls |-> Append(made, InstallCall(k, star_metadata,
                                                           latest_version))]

\* for each position of the request, the name of the plugin its index refers
\* to in plugins ("" when the index is out of range)
Selection(plugins, idx) ==
    [k \in 1..Len(idx) |->
        IF InRange(idx[k], Len(plugins)) THEN plugins[idx[k]][1].name ELSE ""]

\* the apply coroutine a is suspended where RunLoop stopped
Suspend(a, r) ==
    /\ apc' = [apc EXCEPT ![a] = r.pc]
    /\ pos' = [pos EXCEPT ![a] = r.pos]
    /\ results_messages' = [results_messages EXCEPT ![a] = r.msgs]
    /\ calls' = [calls EXCEPT ![a] = r.calls]
    /\ aout' = [aout EXCEPT ![a] =
                  IF r.pc = "yield_report"
                  THEN <<[kind |-> "results", items |-> r.msgs]>> ELSE <<>>]

\* faulty variant of NeedsList: the emptiness of the list is not looked at
NeedsListNever(plugins) == FALSE

\* line 107: not self.updatable_plugins
NeedsList(plugins) == plugins = <<>>

\* lines 107-144: the command arrives and runs to its first suspension
ApplyStart(a, text) ==
    /\ apc[a] = "idle"
    /\ indices_str' = [indices_str EXCEPT ![a] = text]
    /\ IF NeedsList(updatable_plugins)
       THEN /\ apc' = [apc EXCEPT ![a] = "yield_need_list"]
            /\ aout' = [aout EXCEPT ![a] = <<[kind |-> "need_list"]>>]
            /\ UNCHANGED <<indices, pos, results_messages, calls, selected>>
       ELSE IF ~ParseIndices(text).ok
       THEN /\ apc' = [apc EXCEPT ![a] = "yield_usage"]
            /\ aout' = [aout EXCEPT ![a] = <<[kind |-> "usage"]>>]
            /\ UNCHANGED <<indices, pos, results_messages, calls, selected>>
       ELSE /\ indices' = [indices EXCEPT ![a] = ParseIndices(text).vals]
            /\ LET r == RunLoop(updatable_plugins, HasInstallPlugin,
                                ParseIndices(text).vals, 1, <<>>, <<>>)
               IN  /\ Suspend(a, r)
                   /\ selected' = [selected EXCEPT ![a] =
                                    IF r.pc = "await_install"
                                    THEN Selection(updatable_plugins,
                                                   ParseIndices(text).vals)
                                    ELSE <<>>]
    /\ UNCHANGED <<updatable_plugins, host_vars, list_vars, pure_vars>>

\* lines 144-151: install_plugin returns (ok) or raises; the outcome item is
\* appended and the loop runs on to its next suspension
InstallReturn(a, ok) ==
    /\ apc[a] = "await_install"
    /\ LET last == Len(calls[a])
           made == [calls[a] EXCEPT ![last].state = IF ok THEN "returned" ELSE "raised"]
           msgs == Append(results_messages[a], OutcomeItem(calls[a][last], ok))
           plugins == ListAfterInstall(updatable_plugins, indices[a][pos[a]], ok)
           r == RunLoop(plugins, HasInstallPlugin, indices[a], pos[a] + 1, msgs, made)
       IN  /\ updatable_plugins' = plugins
           /\ Suspend(a, r)
           /\ selected' = [selected EXCEPT ![a] =
                            IF r.pc = "await_install" THEN @ ELSE <<>>]
    /\ UNCHANGED <<indices_str, indices, host_vars, list_vars, pure_vars>>

\* lines 109, 118, 153: resumed after the last message; the generator ends
ApplyReturn(a) ==
    /\ apc[a] \in {"yield_need_list", "yield_usage", "yield_report"}
    /\ apc' = [apc EXCEPT ![a] = "idle"]
    /\ indices_str' = [indices_str EXCEPT ![a] = <<>>]
    /\ indices' = [indices EXCEPT ![a] = <<>>]
    /\ pos' = [pos EXCEPT ![a] = 0]
    /\ results_messages' = [results_messages EXCEPT ![a] = <<>>]
    /\ calls' = [calls EXCEPT ![a] = <<>>]
    /\ aout' = [aout EXCEPT ![a] = <<>>]
    /\ selected' = [selected EXCEPT ![a] = <<>>]
    /\ UNCHANGED <<updatable_plugins, host_vars, list_vars, pure_vars>>

\* ------------------------------------------------------------ the program
Next ==
    \/ \E l \in ListOps : ListStart(l)
    \/ \E l \in ListOps : ListFanOut(l)
    \/ \E l \in ListOps, i \in 1..MaxStars : CheckNoMatch(l, i)
    \/ \E l \in ListOps, i \in 1..MaxStars, response \in LiveResponses :
           CheckReturn(l, i, response)
    \/ \E l \in ListOps : ListCollect(l)
    \/ \E l \in ListOps : ListReturn(l)
    \/ \E a \in ApplyOps, text \in IndexInputs : ApplyStart(a, text)
    \/ \E a \in ApplyOps, ok \in BOOLEAN : InstallReturn(a, ok)
    \/ \E a \in ApplyOps : ApplyReturn(a)

Spec == Init /\ [][Next]_vars

\* ------------------------------------- the list command under fair scheduling
\* The "update list" handlers alone (no step of update_plugin_command changes
\* anything they read), with the scheduling the event loop provides: the host
\* keeps consuming a handler's generator, a check that was issued comes back
\* (with an answer or an error), and asyncio.gather returns once it can.
InitList ==
    /\ all_stars \in StarLists
    /\ has_install = FALSE
    /\ Constructed
    /\ cmp_in = <<>> /\ cmp_out = <<>>
    /\ chk_in = <<>> /\ chk_out = <<>>

NextList ==
    \/ \E l \in ListOps : ListStart(l)
    \/ \E l \in ListOps : ListFanOut(l)
    \/ \E l \in ListOps, i \in 1..MaxStars : CheckNoMatch(l, i)
    \/ \E l \in ListOps, i \in 1..MaxStars, response \in LiveResponses :
           CheckReturn(l, i, response)
    \/ \E l \in ListOps : ListCollect(l)
    \/ \E l \in ListOps : ListReturn(l)

\* a step that takes list invocation l on from where it is suspended
ListProgress(l) ==
    \/ ListFanOut(l)
    \/ \E i \in 1..MaxStars : CheckNoMatch(l, i)
    \/ \E i \in 1..MaxStars, response \in LiveResponses : CheckReturn(l, i, response)
    \/ ListCollect(l)
    \/ ListReturn(l)

FairList == \A l \in ListOps : WF_vars(ListProgress(l))

SpecList == InitList /\ [][NextList]_vars /\ FairList

\* ------------------------------------------- harness: _compare_versions
\* dotted-integer version strings, each with the integer segments it denotes
Version(text, parts) == [text |-> text, parts |-> parts]

VersionSamples ==
    { Version(<<"1", ".", "2", ".", "0">>, <<1, 2, 0>>),
      Version(<<"1", ".", "2">>, <<1, 2>>),
      Version(<<"1", ".", "2", ".", "3">>, <<1, 2, 3>>),
      Version(<<"1", ".", "3", ".", "0">>, <<1, 3, 0>>),
      Version(<<"2", ".", "0", ".", "0">>, <<2, 0, 0>>),
      Version(<<"1", ".", "9", ".", "9">>, <<1, 9, 9>>),
      Version(<<"1", ".", "1", "0">>, <<1, 10>>),
      Version(<<"0", "2">>, <<2>>) }

\* the pairs of cmp_in compared, in this order: (a,b) (b,a) (b,c) (a,c)
ComparePairs == << <<1, 2>>, <<2, 1>>, <<2, 3>>, <<1, 3>> >>

InitCmp ==
    /\ all_stars = <<>>
    /\ has_install = FALSE
    /\ Constructed
    /\ cmp_in \in VersionSamples \X VersionSamples \X VersionSamples
    /\ cmp_out = <<>>
    /\ chk_in = <<>> /\ chk_out = <<>>

\* one call of _compare_versions on the next pair
CompareStep ==
    /\ Len(cmp_out) < Len(ComparePairs)
    /\ LET pair == ComparePairs[Len(cmp_out) + 1]
       IN  cmp_out' = Append(cmp_out, CompareVersions(cmp_in[pair[1]].text,
                                                      cmp_in[pair[2]].text))
    /\ UNCHANGED <<cmp_in, chk_in, chk_out, updatable_plugins, host_vars, list_vars,
                   apply_vars>>

SpecCmp == InitCmp /\ [][CompareStep]_vars

\* ------------------------------------------ harness: _check_plugin_update
InitCheck ==
    /\ all_stars = <<>>
    /\ has_install = FALSE
    /\ Constructed
    /\ cmp_in = <<>> /\ cmp_out = <<>>
    /\ chk_in \in { <<HostOrder[i], response>> :
                        i \in 1..Len(HostOrder), response \in Responses }
    /\ chk_out = <<>>

\* one run of _check_plugin_update on the plugin, the remote answering chk_in[2]
CheckStep ==
    /\ chk_out = <<>>
    /\ chk_out' = <<CheckPluginUpdate(chk_in[1], chk_in[2])>>
    /\ UNCHANGED <<chk_in, cmp_in, cmp_out, updatable_plugins, host_vars, list_vars,
                   apply_vars>>

SpecCheck == InitCheck /\ [][CheckStep]_vars

\* ================================================================ claims
\* the sample URLs of the form github.com/<owner>/<repo>
OwnerRepoUrls == {UrlA, UrlBGit}

\* the sign of the first difference of two integer sequences, the shorter
\* one padded with zeros
SignOfSegments(x, y) ==
    LET n    == Max(Len(x), Len(y))
        px   == [i \in 1..n |-> IF i <= Len(x) THEN x[i] ELSE 0]
        py   == [i \in 1..n |-> IF i <= Len(y) THEN y[i] ELSE 0]
        diff == { i \in 1..n : px[i] # py[i] }
    IN  IF diff = {} THEN 0
        ELSE LET d == CHOOSE i \in diff : \A j \in diff : i <= j
             IN  IF px[d] < py[d] THEN -1 ELSE 1

\* C1: every entry of updatable_plugins pairs a plugin whose repository URL
\* has the form github.com/<owner>/<repo> with a latest version that
\* _compare_versions puts strictly above the plugin's current version,
\* whatever list and apply invocations have run
C1_CandidatesAreUpdates ==
    \A i \in 1..Len(updatable_plugins) :
        LET star_metadata  == updatable_plugins[i][1]
            latest_version == updatable_plugins[i][2]
            cmp == CompareVersions(star_metadata.version, latest_version)
        IN  /\ star_metadata.repo_url \in OwnerRepoUrls
            /\ RepoMatch(star_metadata.repo_url).found
            /\ ~cmp.raised
            /\ cmp.val < 0

\* C1 witness: two candidates are listed and an apply invocation has had an
\* install return
C1_Witness ==
    /\ Len(updatable_plugins) >= 2
    /\ \E a \in ApplyOps : \E c \in 1..Len(calls[a]) : calls[a][c].state = "returned"

\* C2: _compare_versions returns the sign of the left-to-right comparison of
\* the integer segments after zero padding, never raises on dotted-integer
\* strings, is antisymmetric (compare(b,a) = -compare(a,b)) and transitive,
\* and gives 0, -1, 1 on the three pairs the specification names
C2_CompareIsSegmentOrder ==
    /\ \A j \in 1..Len(cmp_out) :
          /\ ~cmp_out[j].raised
          /\ cmp_out[j].val = SignOfSegments(cmp_in[ComparePairs[j][1]].parts,
                                             cmp_in[ComparePairs[j][2]].parts)
          /\ cmp_out[j].val \in {-1, 0, 1}
    /\ Len(cmp_out) >= 2 => cmp_out[2].val = 0 - cmp_out[1].val
    /\ Len(cmp_out) = 4 =>
          /\ (cmp_out[1].val <= 0 /\ cmp_out[3].val <= 0) => cmp_out[4].val <= 0
          /\ (cmp_out[1].val <= 0 /\ cmp_out[3].val < 0)  => cmp_out[4].val < 0
          /\ (cmp_out[1].val < 0 /\ cmp_out[3].val <= 0)  => cmp_out[4].val < 0
          /\ (cmp_out[1].val >= 0 /\ cmp_out[3].val >= 0) => cmp_out[4].val >= 0
    /\ Len(cmp_out) >= 1 =>
          /\ (cmp_in[1].text = <<"1", ".", "2", ".", "0">> /\ cmp_in[2].text = <<"1", ".", "2">>)
                => cmp_out[1].val = 0
          /\ (cmp_in[1].text = <<"1", ".", "2", ".", "3">>
                /\ cmp_in[2].text = <<"1", ".", "3", ".", "0">>) => cmp_out[1].val < 0
          /\ (cmp_in[1].text = <<"2", ".", "0", ".", "0">>
                /\ cmp_in[2].text = <<"1", ".", "9", ".", "9">>) => cmp_out[1].val > 0

\* C2 witness: "1.2.0" against "1.2" gave 0 both ways, and "1.2" against
\* "1.10" gave -1 (10 is above 2 as a number)
C2_Witness ==
    /\ Len(cmp_out) = 4
    /\ cmp_in[1].text = <<"1", ".", "2", ".", "0">>
    /\ cmp_in[2].text = <<"1", ".", "2">>
    /\ cmp_in[3].text = <<"1", ".", "1", "0">>
    /\ cmp_out[1].val = 0 /\ cmp_out[2].val = 0
    /\ cmp_out[3].val = -1 /\ cmp_out[4].val = -1

\* the candidates a batch of finished checks should give: for every check
\* that did not fail and found a newer version, in the order of the checks,
\* the checked plugin with that version
RECURSIVE ExpectedCandidates(_)
ExpectedCandidates(ts) ==
    IF ts = <<>> THEN <<>>
    ELSE (IF Head(ts).log # "error" /\ Head(ts).result # <<>>
          THEN <<Head(ts).result>> ELSE <<>>) \o ExpectedCandidates(Tail(ts))

\* list invocation l stops waiting for its checks in this step
LeavesGather(l) == lpc[l] = "gather" /\ lpc'[l] # "gather"

\* C3: a list invocation that no other list invocation overlaps completes
\* whichever of its checks failed: it leaves the wait with its report (never
\* with an exception), every failed check contributed nothing, and the
\* candidate list is then exactly the candidates of its non-failing checks,
\* each for the plugin the check was about, in enumeration order
C3_FailuresAreContained ==
    [][\A l \in ListOps :
          (LeavesGather(l) /\ ~overlapped[l]) =>
              /\ lpc'[l] = "yield_report"
              /\ \A i \in 1..Len(tasks[l]) :
                    /\ tasks[l][i].done
                    /\ tasks[l][i].log = "error" => tasks[l][i].result = <<>>
                    /\ tasks[l][i].result # <<>> =>
                          tasks[l][i].result[1] = tasks[l][i].star
              /\ updatable_plugins' = ExpectedCandidates(tasks[l])
              /\ lout'[l][Len(lout'[l])] =
                    (IF updatable_plugins' # <<>> THEN "updates" ELSE "up_to_date")]_vars

\* C3 witness: a list invocation on its own has all its checks back, the
\* first failed and the second found a newer version; and the list holds
\* exactly that one candidate once it has reported
C3_Witness ==
    \E l \in ListOps :
        /\ ~overlapped[l]
        /\ lpc[l] = "gather"
        /\ Len(tasks[l]) = 2
        /\ tasks[l][1].done /\ tasks[l][1].log = "error"
        /\ tasks[l][2].done /\ tasks[l][2].result # <<>>

\* C4 (the claim as stated): whenever a list invocation finishes, overlapped
\* or not, the candidate list holds exactly the candidates this invocation
\* found, none of them twice
C4_ListHoldsOnlyOwnCandidates ==
    [][\A l \in ListOps :
          (lpc[l] = "gather" /\ lpc'[l] = "yield_report") =>
              /\ updatable_plugins' = ExpectedCandidates(tasks[l])
              /\ \A i, j \in 1..Len(updatable_plugins') :
                    i # j => updatable_plugins'[i] # updatable_plugins'[j]]_vars

\* what iteration k of an apply invocation appended and called
ItemsAt(msgs, k) == SelectSeq(msgs, LAMBDA m : m.k = k)
CallsAt(made, k) == SelectSeq(made, LAMBDA c : c.k = k)

\* the iterations apply invocation a begins in this step; the candidate list
\* they run against is updatable_plugins (no apply step changes it)
NewPositions(a) == (pos[a] + 1)..pos'[a]

\* iteration k of a reported its index out of range, once, and called nothing
RejectedOutOfRange(a, k) ==
    /\ ItemsAt(results_messages'[a], k) =
          <<OutOfRangeItem(k, indices'[a][k], Len(updatable_plugins))>>
    /\ CallsAt(calls'[a], k) = <<>>

\* iteration k of a made exactly one install call, with the repository URL of
\* the candidate at its index
InstallsCandidate(a, k) ==
    /\ Len(CallsAt(calls'[a], k)) = 1
    /\ CallsAt(calls'[a], k)[1].repo_url =
          updatable_plugins[indices'[a][k]][1].repo_url
    /\ CallsAt(calls'[a], k)[1].proxy = "None"

\* C5 (the claim as stated): with N the length of the candidate list, each
\* index outside 1..N gives exactly one out-of-range item and no install
\* call, and each index inside 1..N gives an install call with the URL of the
\* candidate at that index, whatever the other indices of the request are
C5_EveryValidIndexInstalls ==
    [][\A a \in ApplyOps : \A k \in NewPositions(a) :
          IF indices'[a][k] \in 1..Len(updatable_plugins)
          THEN InstallsCandidate(a, k)
          ELSE RejectedOutOfRange(a, k)]_vars

\* C5 (amended): as above, the install call being made when the host provides
\* install_plugin
C5_ValidIndexInstallsWhenCapable ==
    [][\A a \in ApplyOps : \A k \in NewPositions(a) :
          IF indices'[a][k] \in 1..Len(updatable_plugins)
          THEN has_install => InstallsCandidate(a, k)
          ELSE RejectedOutOfRange(a, k)]_vars

\* C5 witness: "1 3" against two candidates: the install for index 1 was
\* called with the first candidate's URL and index 3 was reported out of range
C5_Witness ==
    \E a \in ApplyOps :
        /\ apc[a] = "yield_report"
        /\ indices[a] = <<1, 3>>
        /\ Len(updatable_plugins) = 2
        /\ Len(calls[a]) = 1
        /\ calls[a][1].k = 1
        /\ calls[a][1].repo_url = updatable_plugins[1][1].repo_url
        /\ ItemsAt(results_messages[a], 2) = <<OutOfRangeItem(2, 3, 2)>>

\* the sample arguments with a token that is no integer, or with no token
MalformedInputs == { <<"1", " ", "x">>, <<>> }

\* C6: an apply invocation whose argument has a token that is no integer, or
\* no token, processes no index and makes no install call: it yields the
\* usage message (or the run-list-first message) and nothing else
C6_MalformedRequestRejected ==
    \A a \in ApplyOps :
        (apc[a] # "idle" /\ indices_str[a] \in MalformedInputs) =>
            /\ apc[a] \in {"yield_usage", "yield_need_list"}
            /\ calls[a] = <<>>
            /\ results_messages[a] = <<>>
            /\ pos[a] = 0
            /\ indices[a] = <<>>
            /\ aout[a] \in { <<[kind |-> "usage"]>>, <<[kind |-> "need_list"]>> }

\* C6 witness: "1 x" was rejected although index 1 is in range
C6_Witness ==
    \E a \in ApplyOps :
        /\ apc[a] = "yield_usage"
        /\ indices_str[a] = <<"1", " ", "x">>
        /\ Len(updatable_plugins) >= 1

\* the sample plugins whose repository URL is missing (D), lacks the domain
\* marker (E) or has the marker but no owner/repo after it (C)
UnmatchedStars == {StarC, StarD, StarE}

\* C7: a plugin whose repository URL is missing, lacks "github.com" or does
\* not match github.com/<owner>/<repo> never gives a candidate: it gets no
\* check at all (missing URL, no marker) or a check that returns None without
\* asking the remote (no match), and it is never in updatable_plugins
C7_NoCandidateWithoutRepository ==
    /\ \A i \in 1..Len(updatable_plugins) : updatable_plugins[i][1] \notin UnmatchedStars
    /\ \A l \in ListOps : \A i \in 1..Len(tasks[l]) :
          /\ tasks[l][i].star \notin {StarD, StarE}
          /\ tasks[l][i].star \in UnmatchedStars =>
                /\ tasks[l][i].result = <<>>
                /\ ~tasks[l][i].raised
                /\ tasks[l][i].done => tasks[l][i].log = "warning"

\* C7 witness: the host has loaded A and C; the check of C came back with
\* the no-match warning and the check of A found a newer version
C7_Witness ==
    \E l \in ListOps :
        /\ lpc[l] = "gather"
        /\ all_stars = <<StarA, StarC>>
        /\ Len(tasks[l]) = 2
        /\ tasks[l][1].done /\ tasks[l][1].result # <<>>
        /\ tasks[l][2].done /\ tasks[l][2].star = StarC /\ tasks[l][2].log = "warning"

\* the tag as the check reads it: tag_name, "" when absent, leading v/V removed
StrippedTag(response) ==
    LStrip(IF response.has_tag THEN response.tag ELSE <<>>, {"v", "V"})

\* C8: when the remote answers with JSON whose tag_name, after the leading
\* v/V are removed, equals the plugin's current version, or is absent or
\* empty, _check_plugin_update returns None (and raises nothing)
C8_EqualOrMissingTagGivesNoCandidate ==
    (chk_out # <<>> /\ chk_in[2].kind = "json"
        /\ StrippedTag(chk_in[2]) \in {<<>>, chk_in[1].version}) =>
            /\ chk_out[1].result = <<>>
            /\ ~chk_out[1].raised

\* C8 witness: plugin A at "1.2.0" was checked against the tag "v1.2.0" and
\* the check returned None
C8_Witness ==
    /\ chk_out # <<>>
    /\ chk_in[1] = StarA
    /\ chk_in[2] = Response("json", TRUE, TagEqualA)
    /\ chk_out[1].result = <<>>

\* the items of iteration k that say how the update of its candidate ended
OutcomesAt(msgs, k) ==
    SelectSeq(msgs, LAMBDA m : m.k = k /\ m.kind \in {"success", "failed", "no_capability"})

\* C9: in an apply invocation every install call that has come back has
\* exactly one outcome item, success when it returned and failure when it
\* raised; a call still awaited has none; the loop goes on after a failure:
\* the report is yielded only when every index of the request has been
\* processed, each valid one with exactly one outcome item, and the report
\* carries these items
C9_InstallFailureIsPerItem ==
    \A a \in ApplyOps :
        /\ \A c \in 1..Len(calls[a]) :
              LET call == calls[a][c]
                  outs == OutcomesAt(results_messages[a], call.k)
              IN  /\ call.state = "pending" => (outs = <<>> /\ c = Len(calls[a])
                                                 /\ apc[a] = "await_install")
                  /\ call.state = "returned" =>
                        outs = <<SuccessItem(call.k, call.name, call.latest)>>
                  /\ call.state = "raised" => outs = <<FailedItem(call.k, call.name)>>
                  /\ \A d \in 1..(c - 1) : calls[a][d].k < call.k
        /\ \A m \in 1..Len(results_messages[a]) :
              results_messages[a][m].kind \in {"success", "failed"} =>
                  Len(CallsAt(calls[a], results_messages[a][m].k)) = 1
        /\ apc[a] = "yield_report" =>
              /\ pos[a] = Len(indices[a])
              /\ \A k \in 1..Len(indices[a]) :
                    LET items == ItemsAt(results_messages[a], k)
                    IN  /\ items # <<>>
                        /\ items[1].kind = "updating" =>
                              Len(OutcomesAt(results_messages[a], k)) = 1
                        /\ items[1].kind # "updating" =>
                              OutcomesAt(results_messages[a], k) = <<>>
              /\ aout[a] = <<[kind |-> "results", items |-> results_messages[a]]>>

\* C9 witness: the install for the first index raised, the install for a
\* later index was still made and returned, and the report says failed for
\* the one and success for the other
C9_Witness ==
    \E a \in ApplyOps :
        /\ apc[a] = "yield_report"
        /\ Len(calls[a]) = 2
        /\ calls[a][1].state = "raised"
        /\ calls[a][2].state = "returned"
        /\ OutcomesAt(results_messages[a], calls[a][1].k)[1].kind = "failed"
        /\ OutcomesAt(results_messages[a], calls[a][2].k)[1].kind = "success"

\* C10: while the host has no install_plugin, every step leaves each apply
\* invocation without an install call, without a success item and never
\* waiting for an install; each index it processes in the step that is within
\* the candidate list yields the updating item and one capability-missing
\* item, each other index one out-of-range item, and the step processes the
\* request to its end
C10_NoCapabilityNoInstall ==
    [][~has_install =>
          \A a \in ApplyOps :
              /\ calls'[a] = <<>>
              /\ apc'[a] # "await_install"
              /\ \A m \in 1..Len(results_messages'[a]) :
                    results_messages'[a][m].kind # "success"
              /\ pos'[a] > pos[a] => pos'[a] = Len(indices'[a])
              /\ \A k \in NewPositions(a) :
                    IF indices'[a][k] \in 1..Len(updatable_plugins)
                    THEN LET entry == updatable_plugins[indices'[a][k]]
                         IN  ItemsAt(results_messages'[a], k) =
                                 <<UpdatingItem(k, entry[1].name, entry[2]),
                                   NoCapabilityItem(k)>>
                    ELSE RejectedOutOfRange(a, k)]_vars

\* C10 witness: without install_plugin, " 0  2 1" against two candidates was
\* processed to the end: index 2 got its capability-missing item and so did
\* index 1 after it
C10_Witness ==
    \E a \in ApplyOps :
        /\ ~has_install
        /\ apc[a] = "yield_report"
        /\ indices[a] = <<0, 2, 1>>
        /\ Len(updatable_plugins) = 2
        /\ calls[a] = <<>>
        /\ OutcomesAt(results_messages[a], 2) = <<NoCapabilityItem(2)>>
        /\ OutcomesAt(results_messages[a], 3) = <<NoCapabilityItem(3)>>

\* C11: no step of an apply invocation (the command arriving and being
\* rejected or processed, an install returning or raising, the invocation
\* ending) changes updatable_plugins: every index still refers to the same
\* candidate, the entry of an updated plugin included
C11_ApplyLeavesListAlone ==
    [][apply_vars' # apply_vars => updatable_plugins' = updatable_plugins]_vars

\* C11 witness: the install for index 1 returned and the report is out; the
\* list still has both candidates, the updated one at index 1
C11_Witness ==
    \E a \in ApplyOps :
        /\ apc[a] = "yield_report"
        /\ Len(calls[a]) >= 1
        /\ calls[a][1].state = "returned"
        /\ indices[a][calls[a][1].k] = 1
        /\ Len(updatable_plugins) = 2
        /\ updatable_plugins[1][1].name = calls[a][1].name

\* list invocation l waits for its checks and one of them is not back yet
Outstanding(l) == lpc[l] = "gather" /\ \E i \in 1..Len(tasks[l]) : ~tasks[l][i].done

\* C12: while a check of a list invocation is outstanding, no step takes the
\* invocation out of its wait or makes it yield anything; it reaches its
\* report only from the wait with every check back; and whenever entries are
\* added to updatable_plugins, they are the results of an invocation whose
\* checks are all back and which reports in the same step
C12_ReportOnlyAfterAllChecks ==
    [][/\ \A l \in ListOps :
             /\ Outstanding(l) => (lpc'[l] = "gather" /\ lout'[l] = lout[l])
             /\ (lpc[l] # "yield_report" /\ lpc'[l] = "yield_report") =>
                   /\ lpc[l] = "gather"
                   /\ ~Outstanding(l)
                   /\ Len(lout'[l]) = Len(lout[l]) + 1
       /\ (updatable_plugins' # updatable_plugins /\ updatable_plugins' # <<>>) =>
             \E l \in ListOps :
                 /\ lpc[l] = "gather" /\ ~Outstanding(l)
                 /\ lpc'[l] = "yield_report"
                 /\ updatable_plugins' =
                       updatable_plugins \o ExpectedCandidates(tasks[l])]_vars

\* C12 witness: of the two checks of a list invocation the first is back
\* with a newer version, the second is outstanding, and the list is empty
C12_Witness ==
    \E l \in ListOps :
        /\ lpc[l] = "gather"
        /\ Len(tasks[l]) = 2
        /\ tasks[l][1].done /\ tasks[l][1].result # <<>>
        /\ ~tasks[l][2].done
        /\ updatable_plugins = <<>>
        /\ lout[l] = <<"checking">>

\* the messages of a list invocation that are a final report
FinalKinds == {"no_stars", "no_tasks", "updates", "up_to_date"}

FinalReports(l) == SelectSeq(lout[l], LAMBDA kind : kind \in FinalKinds)

\* list invocation l has yielded its final report, as its last message
Reported(l) ==
    /\ lpc[l] \in {"yield_no_stars", "yield_no_tasks", "yield_report"}
    /\ Len(FinalReports(l)) = 1
    /\ lout[l][Len(lout[l])] \in FinalKinds

\* C13: under fair scheduling every list invocation that has started ends
\* (the handler is idle again and again, so it is never stuck in the checking
\* state); it ends only from its final report, yielded as its last message
\* (in particular not with an exception of a failed check), and it never
\* yields a second final report
C13_ListTerminatesWithOneReport ==
    /\ [](\A l \in ListOps : Len(FinalReports(l)) <= 1)
    /\ [][\A l \in ListOps : (lpc[l] # "idle" /\ lpc'[l] = "idle") => Reported(l)]_vars
    /\ \A l \in ListOps : []<>(lpc[l] = "idle")

\* C13 witness: with two plugins to check, a list invocation has yielded the
\* checking message and then its one final report
C13_Witness ==
    \E l \in ListOps :
        /\ Len(all_stars) = 2
        /\ Reported(l)
        /\ lout[l] = <<"checking", "up_to_date">>

\* the iterations of apply invocation a, in order, that told the operator an
\* update was starting
UpdatingPositions(a) ==
    LET items == SelectSeq(results_messages[a], LAMBDA m : m.kind = "updating")
    IN  [i \in 1..Len(items) |-> items[i].k]

\* C14: the install calls of an apply invocation are made one at a time and
\* in the order of the request: only the last call can be awaiting its
\* return, and then the invocation is suspended in that await and has not gone
\* past that index; the calls are for increasing positions of the request,
\* each with the index at its position, and (the host having install_plugin)
\* they are exactly the valid positions processed so far, none skipped
C14_InstallsOneAtATimeInOrder ==
    \A a \in ApplyOps :
        /\ \A c \in 1..Len(calls[a]) :
              /\ c < Len(calls[a]) => calls[a][c].state # "pending"
              /\ calls[a][c].state = "pending" =>
                    (apc[a] = "await_install" /\ pos[a] = calls[a][c].k)
              /\ calls[a][c].k \in 1..pos[a]
              /\ \A d \in 1..(c - 1) : calls[a][d].k < calls[a][c].k
        /\ apc[a] = "await_install" =>
              (calls[a] # <<>> /\ calls[a][Len(calls[a])].state = "pending")
        /\ has_install =>
              UpdatingPositions(a) = [c \in 1..Len(calls[a]) |-> calls[a][c].k]

\* C14 witness: for the request " 0  2 1" the install for index 2 has come
\* back and the install for index 1, later in the request, is now awaited
C14_Witness ==
    \E a \in ApplyOps :
        /\ apc[a] = "await_install"
        /\ indices[a] = <<0, 2, 1>>
        /\ Len(calls[a]) = 2
        /\ calls[a][1].k = 2 /\ calls[a][1].state # "pending"
        /\ calls[a][2].k = 3 /\ calls[a][2].state = "pending"

\* C15 (the claim as stated): every install call of an apply invocation is,
\* when it is made, for the plugin that held the call's index in the
\* candidate list as it was when the invocation started
C15_InstallTargetsListAsStarted ==
    \A a \in ApplyOps : \A c \in 1..Len(calls[a]) :
      calls[a][c].state = "pending" =>
        calls[a][c].name = selected[a][calls[a][c].k]

\* C16: an apply invocation that arrives while updatable_plugins is empty
\* yields the run-list-first message and nothing else, whatever its argument:
\* it parses no index, appends no item and calls no install, then and until
\* it ends
C16_EmptyListMakesNoInstall ==
    [][\A a \in ApplyOps :
          /\ (apc[a] = "idle" /\ apc'[a] # "idle" /\ updatable_plugins = <<>>) =>
                /\ apc'[a] = "yield_need_list"
                /\ aout'[a] = <<[kind |-> "need_list"]>>
          /\ apc'[a] = "yield_need_list" =>
                /\ apc[a] \in {"idle", "yield_need_list"}
                /\ calls'[a] = <<>>
                /\ results_messages'[a] = <<>>
                /\ indices'[a] = <<>>
                /\ pos'[a] = 0
                /\ aout'[a] = <<[kind |-> "need_list"]>>
          /\ apc[a] = "yield_need_list" => apc'[a] \in {"yield_need_list", "idle"}]_vars

\* C16 witness: "1 3" arrived while a list invocation had emptied the list
\* and was still waiting for a check; it was answered with run-list-first
C16_Witness ==
    \E a \in ApplyOps :
        /\ apc[a] = "yield_need_list"
        /\ indices_str[a] = <<"1", " ", "3">>
        /\ updatable_plugins = <<>>
        /\ has_install
        /\ \E l \in ListOps : Outstanding(l)

====
